---- MODULE Spec2Model ----
(***************************************************************************)
(* A model of paasta_tools/chronos_tools.py: the validation of a Chronos   *)
(* job configuration (ChronosJobConfig), the construction of the complete  *)
(* job payload (format_chronos_job_dict, create_complete_config) and the   *)
(* lookup of jobs by name pattern (lookup_chronos_jobs).                   *)
(*                                                                         *)
(* Python strings are sequences of one-character strings.  Python values   *)
(* of a raw configuration are records tagged with their Python type.       *)
(***************************************************************************)
EXTENDS Integers, Sequences, FiniteSets, TLC

VARIABLES
    config_dict,    \* ChronosJobConfig.config_dict: the raw field mapping
    branch_dict,    \* ChronosJobConfig.branch_dict: the deployment record
    jobs,           \* what client.list() returns: the scheduler's listing
    call,           \* the last call made and its arguments
    ret,            \* what the last call returned or raised
    log,            \* the payloads handed to log.info by format_chronos_job_dict
    minted          \* the code identifier, config hash and tag of the last two
                    \* revisions that create_complete_config named

vars == <<config_dict, branch_dict, jobs, call, ret, log, minted>>

----------------------------------------------------------------------------
(* Bounds of the model *)

\* longest repeat part of a schedule that is enumerated
MaxRepeatLen == 3
\* longest code identifier / config hash that is enumerated
MaxStrLen == 1
\* longest job listing that is enumerated
MaxJobs == 3

----------------------------------------------------------------------------
(* Strings *)

SPACER == <<" ">>

RECURSIVE StringsUpTo(_, _)
\* every string over alphabet of length at most n
StringsUpTo(alphabet, n) ==
    IF n = 0 THEN {<<>>}
    ELSE LET shorter == StringsUpTo(alphabet, n - 1)
         IN  shorter \cup {Append(s, c) : s \in shorter, c \in alphabet}

RECURSIVE Join(_, _)
\* sep.join(parts)
Join(sep, parts) ==
    IF parts = <<>> THEN <<>>
    ELSE IF Len(parts) = 1 THEN parts[1]
    ELSE parts[1] \o sep \o Join(sep, Tail(parts))

RECURSIVE Split(_, _)
\* str.split(s, sep) for a one-character separator: never an empty list
Split(s, sep) ==
    IF \A i \in 1..Len(s) : s[i] # sep THEN <<s>>
    ELSE LET i == CHOOSE k \in 1..Len(s) :
                      s[k] = sep /\ \A j \in 1..(k - 1) : s[j] # sep
         IN  <<SubSeq(s, 1, i - 1)>> \o Split(SubSeq(s, i + 1, Len(s)), sep)

----------------------------------------------------------------------------
(* Python values *)

PyNone == [t |-> "NoneType"]
PyStr(s) == [t |-> "str", v |-> s]
PyInt(n) == [t |-> "int", v |-> n]
PyFloat(n) == [t |-> "float", v |-> n]
PyBool(b) == [t |-> "bool", v |-> b]

\* isinstance(x, int): bool is a subclass of int
IsInstanceInt(x) == x.t \in {"int", "bool"}
IsInstanceFloat(x) == x.t = "float"

\* the truth value of x in a Python condition
Truthy(x) ==
    CASE x.t = "NoneType" -> FALSE
      [] x.t = "int" -> x.v # 0
      [] x.t = "float" -> x.v # 0
      [] x.t = "bool" -> x.v
      [] x.t = "str" -> x.v # <<>>

\* dict.get(key, default)
Get(d, key, default) == IF key \in DOMAIN d THEN d[key] ELSE default

----------------------------------------------------------------------------
(* isodate, as far as the strings of this model go *)

\* "PT60S", "PT1H", "P1D": durations isodate.parse_duration accepts
PT60S == <<"P", "T", "6", "0", "S">>
PT1H == <<"P", "T", "1", "H">>
P1D == <<"P", "1", "D">>
\* "1H" lacks the leading P, "" is empty: isodate.parse_duration raises ISO8601Error
NotADuration == <<"1", "H">>

\* "2020-01-01T00:00:00Z" and "2020-01-01T00:00:00+01:00" carry a time zone,
\* "2020-01-01T00:00:00" does not, "2020-13-01T00:00:00" has no such month
DatetimeUTC == <<"2", "0", "2", "0", "-", "0", "1", "-", "0", "1", "T", "0", "0", ":", "0", "0", ":", "0", "0", "Z">>
DatetimeOffset == <<"2", "0", "2", "0", "-", "0", "1", "-", "0", "1", "T", "0", "0", ":", "0", "0", ":", "0", "0", "+", "0", "1", ":", "0", "0">>
DatetimeNaive == <<"2", "0", "2", "0", "-", "0", "1", "-", "0", "1", "T", "0", "0", ":", "0", "0", ":", "0", "0">>
NotADatetime == <<"2", "0", "2", "0", "-", "1", "3", "-", "0", "1", "T", "0", "0", ":", "0", "0", ":", "0", "0">>

\* isodate.parse_duration(s): whether it returns (TRUE) or raises ISO8601Error
ParseDurationOk(s) == s \in {PT60S, PT1H, P1D}

\* isodate.parse_datetime(s): the datetime object it returns, or the ISO8601Error
\* it raises.  A datetime object always has the attribute tzinfo, which is None
\* when the string carried no time zone.
ParseDatetime(s) ==
    CASE s = DatetimeUTC -> [ok |-> TRUE, dt |-> [tzinfo |-> "UTC"]]
      [] s = DatetimeOffset -> [ok |-> TRUE, dt |-> [tzinfo |-> "+01:00"]]
      [] s = DatetimeNaive -> [ok |-> TRUE, dt |-> [tzinfo |-> "None"]]
      [] OTHER -> [ok |-> FALSE, exc |-> "ISO8601Error"]

\* hasattr(obj, name)
HasAttr(obj, name) == name \in DOMAIN obj

----------------------------------------------------------------------------
(* Messages.  A text is a sequence of tokens: a message is one token that   *)
(* keeps what the format string was given, a line break is the token NL.    *)

NL == <<[kind |-> "\n"]>>
NoMsg == <<>>
EpsilonMsg(epsilon) == <<[kind |-> "epsilon does not conform to ISO8601", value |-> epsilon]>>
RetriesMsg(retries) == <<[kind |-> "retries is not a valid int", value |-> retries]>>
CpusMsg(cpus) == <<[kind |-> "cpus is not a valid float", value |-> cpus]>>
MemMsg(mem) == <<[kind |-> "mem is not a valid float", value |-> mem]>>
InvalidScheduleMsg(schedule) == <<[kind |-> "schedule is invalid", schedule |-> schedule]>>
NoStartTimeMsg(schedule) == <<[kind |-> "schedule does not contain a start time", schedule |-> schedule]>>
NoTimeZoneMsg(start_time) == <<[kind |-> "start time must contain a time zone", start_time |-> start_time]>>
StartTimeMsg(start_time, schedule, exc) ==
    <<[kind |-> "start time does not conform to ISO 8601", start_time |-> start_time,
       schedule |-> schedule, exc |-> exc]>>
IntervalMsg(interval, schedule) ==
    <<[kind |-> "interval does not conform to ISO 8601", interval |-> interval, schedule |-> schedule]>>
RepeatMsg(repeat, schedule) ==
    <<[kind |-> "repeat does not conform to ISO 8601", repeat |-> repeat, schedule |-> schedule]>>
NoScheduleMsg == <<[kind |-> "You must specify a schedule"]>>
UnsupportedMsg(param) == <<[kind |-> "an unsupported parameter", param |-> param]>>

\* whether text holds a token of this kind
HasKind(text, kind) == \E i \in 1..Len(text) : text[i].kind = kind

\* whether text holds all of msg, in one piece
Contains(text, msg) ==
    \E i \in 0..(Len(text) - Len(msg)) : SubSeq(text, i + 1, i + Len(msg)) = msg

----------------------------------------------------------------------------
(* InstanceConfig (paasta_tools.utils): the accessors and checks that      *)
(* ChronosJobConfig inherits                                               *)

get_cpus(cfg) == Get(cfg, "cpus", PyFloat(25))
get_mem(cfg) == Get(cfg, "mem", PyInt(1000))
get_cmd(cfg) == Get(cfg, "cmd", PyNone)
get_monitoring(cfg) == Get(cfg, "monitoring", PyNone)
get_desired_state(branch) == Get(branch, "desired_state", "start")

check_cpus(cfg) ==
    LET cpus == get_cpus(cfg)
    IN  IF cpus # PyNone /\ ~IsInstanceFloat(cpus) /\ ~IsInstanceInt(cpus)
        THEN [ok |-> FALSE, msg |-> CpusMsg(cpus)]
        ELSE [ok |-> TRUE, msg |-> NoMsg]

check_mem(cfg) ==
    LET mem == get_mem(cfg)
    IN  IF mem # PyNone /\ ~IsInstanceFloat(mem) /\ ~IsInstanceInt(mem)
        THEN [ok |-> FALSE, msg |-> MemMsg(mem)]
        ELSE [ok |-> TRUE, msg |-> NoMsg]

----------------------------------------------------------------------------
(* ChronosJobConfig *)

get_args(cfg) == Get(cfg, "args", PyNone)
get_env(cfg) == Get(cfg, "env", <<>>)
get_constraints(cfg) == Get(cfg, "constraints", PyNone)
get_epsilon(cfg) == Get(cfg, "epsilon", PyStr(PT60S))
get_retries(cfg) == Get(cfg, "retries", PyInt(2))
get_disabled(cfg) == Get(cfg, "disabled", PyBool(FALSE))
get_schedule(cfg) == Get(cfg, "schedule", PyNone)
get_schedule_time_zone(cfg) == Get(cfg, "schedule_time_zone", PyNone)

check_epsilon(cfg) ==
    LET epsilon == get_epsilon(cfg)
    IN  IF ~ParseDurationOk(epsilon.v)
        THEN [ok |-> FALSE, msg |-> EpsilonMsg(epsilon.v)]
        ELSE [ok |-> TRUE, msg |-> NoMsg]

check_retries(cfg) ==
    LET retries == get_retries(cfg)
    IN  IF retries # PyNone /\ ~IsInstanceInt(retries)
        THEN [ok |-> FALSE, msg |-> RetriesMsg(retries)]
        ELSE [ok |-> TRUE, msg |-> NoMsg]

Digits == {"0", "1", "2", "3", "4", "5", "6", "7", "8", "9"}

\* re.compile('^R\d*$').match(repeat_string) is not None.  In Python, $ matches
\* at the end of the string and also just before a line break that ends it.
check_schedule_repeat_helper(repeat_string) ==
    /\ Len(repeat_string) >= 1
    /\ repeat_string[1] = "R"
    /\ \E last \in {Len(repeat_string) - 1, Len(repeat_string)} :
          /\ last >= 1
          /\ \A i \in 2..last : repeat_string[i] \in Digits
          /\ last < Len(repeat_string) => repeat_string[Len(repeat_string)] = "\n"

\* the start time's part of check_schedule: the messages it appends
check_schedule_start_time(start_time, schedule) ==
    IF start_time = <<>>
    THEN <<NoStartTimeMsg(schedule)>>
    ELSE LET parsed == ParseDatetime(start_time)
         IN  IF parsed.ok
             THEN IF ~HasAttr(parsed.dt, "tzinfo")
                  THEN <<NoTimeZoneMsg(start_time)>>
                  ELSE <<>>
             ELSE <<StartTimeMsg(start_time, schedule, parsed.exc)>>

check_schedule(cfg) ==
    LET schedule == get_schedule(cfg)
    IN  IF schedule # PyNone
        THEN LET parts == Split(schedule.v, "/")
             IN  IF Len(parts) # 3
                 THEN [ok |-> FALSE, msg |-> InvalidScheduleMsg(schedule.v)]
                 ELSE LET repeat == parts[1]
                          start_time == parts[2]
                          interval == parts[3]
                          msgs == check_schedule_start_time(start_time, schedule.v)
                                  \o (IF ~ParseDurationOk(interval)
                                      THEN <<IntervalMsg(interval, schedule.v)>>
                                      ELSE <<>>)
                                  \o (IF ~check_schedule_repeat_helper(repeat)
                                      THEN <<RepeatMsg(repeat, schedule.v)>>
                                      ELSE <<>>)
                      IN  [ok |-> Len(msgs) = 0, msg |-> Join(NL, msgs)]
        ELSE [ok |-> FALSE, msg |-> Join(NL, <<NoScheduleMsg>>)]

check_schedule_time_zone(cfg) == [ok |-> TRUE, msg |-> NoMsg]

check_methods == {"epsilon", "retries", "cpus", "mem", "schedule", "scheduleTimeZone"}
supported_params_without_checks == {"description", "command", "owner", "disabled"}

check(cfg, param) ==
    IF param \in check_methods
    THEN CASE param = "epsilon" -> check_epsilon(cfg)
           [] param = "retries" -> check_retries(cfg)
           [] param = "cpus" -> check_cpus(cfg)
           [] param = "mem" -> check_mem(cfg)
           [] param = "schedule" -> check_schedule(cfg)
           [] param = "scheduleTimeZone" -> check_schedule_time_zone(cfg)
    ELSE IF param \in supported_params_without_checks
    THEN [ok |-> TRUE, msg |-> NoMsg]
    ELSE [ok |-> FALSE, msg |-> UnsupportedMsg(param)]

RECURSIVE failed_checks(_, _)
\* the loop of validate: the message of every check of params that fails, in order
failed_checks(cfg, params) ==
    IF params = <<>> THEN <<>>
    ELSE LET c == check(cfg, Head(params))
         IN  (IF ~c.ok THEN <<c.msg>> ELSE <<>>) \o failed_checks(cfg, Tail(params))

\* InstanceConfig.validate(): the messages of the shared checks
instance_config_validate(cfg) == failed_checks(cfg, <<"cpus", "mem">>)

\* validate had it returned at the first check that fails
validate_first_failure(cfg) ==
    LET error_msgs == instance_config_validate(cfg)
                      \o failed_checks(cfg, <<"epsilon", "retries", "cpus", "mem",
                                              "schedule", "scheduleTimeZone">>)
        first == IF error_msgs = <<>> THEN <<>> ELSE <<Head(error_msgs)>>
    IN  [valid |-> Len(first) = 0, error_msgs |-> first]

validated_params == <<"epsilon", "retries", "cpus", "mem", "schedule", "scheduleTimeZone">>

validate(cfg) ==
    LET error_msgs == instance_config_validate(cfg) \o failed_checks(cfg, validated_params)
    IN  [valid |-> Len(error_msgs) = 0, error_msgs |-> error_msgs]

----------------------------------------------------------------------------
(* The payload *)

\* what the collaborators of the payload builder hand over
ServiceName == <<"s">>
JobName == <<"j">>
DockerUrl == <<"u">>
DockerVolumes == <<>>

\* monitoring_tools.get_team_email_address(service, overrides)
get_owner(cfg) == get_monitoring(cfg)

\* the dictionary that format_chronos_job_dict builds once validation has passed
complete_config_of(cfg, docker_url, docker_volumes) ==
    [name |-> JobName,
     container |-> [image |-> docker_url, network |-> "BRIDGE", type |-> "DOCKER",
                    volumes |-> docker_volumes],
     environmentVariables |-> get_env(cfg),
     mem |-> get_mem(cfg),
     cpus |-> get_cpus(cfg),
     constraints |-> get_constraints(cfg),
     command |-> get_cmd(cfg),
     arguments |-> get_args(cfg),
     epsilon |-> get_epsilon(cfg),
     retries |-> get_retries(cfg),
     async |-> FALSE,
     disabled |-> get_disabled(cfg),
     owner |-> get_owner(cfg),
     schedule |-> get_schedule(cfg),
     scheduleTimeZone |-> get_schedule_time_zone(cfg)]

\* format_chronos_job_dict had it built the payload without asking validate
format_unvalidated(cfg, docker_url, docker_volumes) ==
    LET complete_config == complete_config_of(cfg, docker_url, docker_volumes)
    IN  [raised |-> "none", value |-> complete_config, logged |-> {complete_config}]

\* what format_chronos_job_dict raises or returns, and what it hands to log.info
format_chronos_job_dict(cfg, docker_url, docker_volumes) ==
    LET v == validate(cfg)
    IN  IF ~v.valid
        THEN [raised |-> "InvalidChronosConfigError", msg |-> Join(NL, v.error_msgs),
              logged |-> {}]
        ELSE LET complete_config == complete_config_of(cfg, docker_url, docker_volumes)
             IN  [raised |-> "none", value |-> complete_config, logged |-> {complete_config}]

get_job_id(service, instance, tag) ==
    IF tag # <<>>
    THEN service \o SPACER \o instance \o SPACER \o tag
    ELSE service \o SPACER \o instance

\* the tag had it been composed without the SPACER between its parts
revision_tag_unspaced(code_sha, config_hash) == code_sha \o config_hash

\* tag = "%s%s%s" % (code_sha, SPACER, config_hash)
revision_tag(code_sha, config_hash) == code_sha \o SPACER \o config_hash

\* create_complete_config had it left the disabled flag as format_chronos_job_dict
\* set it
create_keeping_disabled(cfg, branch, code_sha, config_hash) ==
    LET formatted == format_chronos_job_dict(cfg, DockerUrl, DockerVolumes)
    IN  IF formatted.raised # "none" THEN formatted
        ELSE LET tag == code_sha \o SPACER \o config_hash
                 full_id == get_job_id(ServiceName, JobName, tag)
             IN  [raised |-> "none", value |-> [formatted.value EXCEPT !.name = full_id],
                  logged |-> formatted.logged, tag |-> tag]

\* create_complete_config once the job configuration, the docker url, the code
\* identifier and the config hash have come back from the collaborators
create_complete_config(cfg, branch, code_sha, config_hash) ==
    LET formatted == format_chronos_job_dict(cfg, DockerUrl, DockerVolumes)
    IN  IF formatted.raised # "none" THEN formatted
        ELSE LET tag == revision_tag(code_sha, config_hash)
                 full_id == get_job_id(ServiceName, JobName, tag)
                 named == [formatted.value EXCEPT !.name = full_id]
                 desired_state == get_desired_state(branch)
                 complete_config ==
                     IF desired_state = "start"
                     THEN [named EXCEPT !.disabled = PyBool(FALSE)]
                     ELSE IF desired_state = "stop"
                     THEN [named EXCEPT !.disabled = PyBool(TRUE)]
                     ELSE named
             IN  [raised |-> "none", value |-> complete_config, logged |-> formatted.logged,
                  tag |-> tag]

----------------------------------------------------------------------------
(* The job query *)

\* re.compile(pattern) over the patterns of this model, which are made of
\* letters, the anchor ^ and the opening parenthesis: a parenthesis that is
\* never closed is an re.error
CompileOk(pattern) == \A i \in 1..Len(pattern) : pattern[i] # "("

RECURSIVE MatchAt(_, _, _)
\* whether pattern matches name from position i on: ^ matches only before the
\* first character, any other character matches itself
MatchAt(pattern, name, i) ==
    IF pattern = <<>> THEN TRUE
    ELSE IF Head(pattern) = "^" THEN i = 1 /\ MatchAt(Tail(pattern), name, i)
    ELSE /\ i <= Len(name)
         /\ name[i] = Head(pattern)
         /\ MatchAt(Tail(pattern), name, i + 1)

\* regexp.search(name)
Search(pattern, name) == \E i \in 1..(Len(name) + 1) : MatchAt(pattern, name, i)

RECURSIVE matching_jobs_any_state(_, _, _)
\* the loop of lookup_chronos_jobs had it kept disabled jobs whatever include_disabled
matching_jobs_any_state(pattern, listing, include_disabled) ==
    IF listing = <<>> THEN <<>>
    ELSE LET job == Head(listing)
             rest == matching_jobs_any_state(pattern, Tail(listing), include_disabled)
         IN  IF Search(pattern, job.name) THEN <<job>> \o rest ELSE rest

RECURSIVE matching_jobs_of(_, _, _)
\* the loop of lookup_chronos_jobs over the listing
matching_jobs_of(pattern, listing, include_disabled) ==
    IF listing = <<>> THEN <<>>
    ELSE LET job == Head(listing)
             rest == matching_jobs_of(pattern, Tail(listing), include_disabled)
         IN  IF Search(pattern, job.name)
             THEN IF job.disabled /\ ~include_disabled THEN rest ELSE <<job>> \o rest
             ELSE rest

\* [job['name'] for job in matching_jobs]
names_of(listing) == [i \in 1..Len(listing) |-> listing[i].name]

lookup_chronos_jobs(pattern, listing, max_expected, include_disabled) ==
    IF ~CompileOk(pattern)
    THEN [raised |-> "ValueError", msg |-> [kind |-> "Invalid regex pattern", pattern |-> pattern]]
    ELSE LET matching_jobs == matching_jobs_of(pattern, listing, include_disabled)
         IN  IF Truthy(max_expected) /\ Len(matching_jobs) > max_expected.v
             THEN [raised |-> "ValueError",
                   msg |-> [kind |-> "Found too many jobs", count |-> Len(matching_jobs),
                            pattern |-> pattern, max_expected |-> max_expected.v,
                            ids |-> Join(<<",", " ">>, names_of(matching_jobs))]]
             ELSE [raised |-> "none", value |-> matching_jobs]

----------------------------------------------------------------------------
(* The inputs that are enumerated *)

\* a key the configuration does not hold
Absent == [t |-> "absent"]

\* the mapping that holds the keys of fields whose value is not Absent
Present(fields) == [k \in {f \in DOMAIN fields : fields[f] # Absent} |-> fields[k]]

ScheduleOf(repeat, start_time, interval) == Join(<<"/">>, <<repeat, start_time, interval>>)

\* raw configurations: valid and invalid values of every validated field, and a
\* misspelt field name
ConfigFields ==
    [epsilon : {Absent, PyStr(PT1H), PyStr(NotADuration)},
     retries : {Absent, PyNone, PyInt(3), PyStr(<<"3">>)},
     cpus : {Absent, PyStr(<<"1">>)},
     mem : {Absent, PyStr(<<"1">>)},
     schedule : {Absent,
                 PyStr(ScheduleOf(<<"R">>, DatetimeUTC, PT1H)),
                 PyStr(ScheduleOf(<<"R">>, <<>>, PT1H)),
                 PyStr(ScheduleOf(<<"x">>, NotADatetime, NotADuration)),
                 PyStr(<<"R", "5">>)},
     disabled : {Absent, PyBool(TRUE), PyBool(FALSE)},
     retriesx : {Absent, PyInt(3)}]

ConfigDicts == {Present(fields) : fields \in ConfigFields}

BranchDicts ==
    {<<>>} \cup {[desired_state |-> d] : d \in {"start", "stop"}}

\* the parts of the schedules that check_schedule is tried on
RepeatAlphabet == {"R", "r", "Q", "0", "5", "x", " ", "\n"}
Repeats == StringsUpTo(RepeatAlphabet, MaxRepeatLen)
StartTimes == {<<>>, DatetimeUTC, DatetimeOffset, DatetimeNaive, NotADatetime}
Intervals == {PT1H, <<>>, NotADuration}

Schedules ==
    {ScheduleOf(r, st, iv) : r \in Repeats, st \in StartTimes, iv \in Intervals}
    \cup {<<>>, <<"R">>,
          Join(<<"/">>, <<<<"R">>, PT1H>>),
          Join(<<"/">>, <<<<"R">>, DatetimeUTC, PT1H, PT1H>>)}

ScheduleConfigDicts == {<<>>} \cup {[schedule |-> PyStr(s)] : s \in Schedules}

\* code identifiers and config hashes
OpaqueStrings == StringsUpTo({"a", " "}, MaxStrLen)

\* name patterns, job names and listings
Patterns ==
    {<<>>, <<"f">>, <<"q">>, <<"^", "f">>, <<"^", "q">>, <<"q", "f">>, <<"f", "^">>,
     <<"(">>}
JobNames == {<<"f">>, <<"q", "f">>}
JobRecords == [name : JobNames, disabled : BOOLEAN]

RECURSIVE ListingsUpTo(_)
ListingsUpTo(n) ==
    IF n = 0 THEN {<<>>}
    ELSE LET shorter == ListingsUpTo(n - 1)
         IN  shorter \cup {Append(l, j) : l \in shorter, j \in JobRecords}

Listings == ListingsUpTo(MaxJobs)
MaxExpecteds == {PyNone} \cup {PyInt(n) : n \in 0..MaxJobs}

----------------------------------------------------------------------------
(* The state machine *)

NoCall == [op |-> "none"]
NoRet == [raised |-> "none"]

\* self.validate()
Validate ==
    /\ call' = [op |-> "validate"]
    /\ ret' = [raised |-> "none", value |-> validate(config_dict)]
    /\ UNCHANGED <<config_dict, branch_dict, jobs, log, minted>>

\* self.check(param)
Check ==
    \E param \in check_methods \cup supported_params_without_checks \cup {"retriesx"} :
        /\ call' = [op |-> "check", param |-> param]
        /\ ret' = [raised |-> "none", value |-> check(config_dict, param)]
        /\ UNCHANGED <<config_dict, branch_dict, jobs, log, minted>>

\* self.check_schedule()
CheckSchedule ==
    /\ call' = [op |-> "check_schedule"]
    /\ ret' = [raised |-> "none", value |-> check_schedule(config_dict)]
    /\ UNCHANGED <<config_dict, branch_dict, jobs, log, minted>>

\* self.format_chronos_job_dict(docker_url, docker_volumes)
FormatChronosJobDict ==
    \E r \in {format_chronos_job_dict(config_dict, DockerUrl, DockerVolumes)} :
        /\ call' = [op |-> "format_chronos_job_dict"]
        /\ ret' = [f \in DOMAIN r \ {"logged"} |-> r[f]]
        /\ log' = log \cup r.logged
        /\ UNCHANGED <<config_dict, branch_dict, jobs, minted>>

\* create_complete_config(service, job_name), the collaborators answering with
\* a code identifier among code_shas and a config hash among config_hashes
CreateCompleteConfig(code_shas, config_hashes) ==
    \E code_sha \in code_shas, config_hash \in config_hashes :
        \E r \in {create_complete_config(config_dict, branch_dict, code_sha, config_hash)} :
            /\ call' = [op |-> "create_complete_config"]
            /\ ret' = [f \in DOMAIN r \ {"logged", "tag"} |-> r[f]]
            /\ log' = log \cup r.logged
            /\ minted' = IF r.raised # "none" THEN minted
                         ELSE LET revision == [code_sha |-> code_sha,
                                               config_hash |-> config_hash, tag |-> r.tag]
                              IN  IF Len(minted) < 2 THEN Append(minted, revision)
                                  ELSE <<minted[2], revision>>
            /\ UNCHANGED <<config_dict, branch_dict, jobs>>

\* lookup_chronos_jobs(pattern, client, max_expected, include_disabled)
LookupChronosJobs ==
    \E pattern \in Patterns, max_expected \in MaxExpecteds, include_disabled \in BOOLEAN :
        /\ call' = [op |-> "lookup_chronos_jobs", pattern |-> pattern,
                    max_expected |-> max_expected, include_disabled |-> include_disabled]
        /\ ret' = lookup_chronos_jobs(pattern, jobs, max_expected, include_disabled)
        /\ UNCHANGED <<config_dict, branch_dict, jobs, log, minted>>

Idle ==
    /\ call = NoCall
    /\ ret = NoRet
    /\ log = {}
    /\ minted = <<>>

\* a job configuration is loaded, then validated, checked and built
Init ==
    /\ config_dict \in ConfigDicts
    /\ branch_dict \in BranchDicts
    /\ jobs = <<>>
    /\ Idle

Next ==
    \/ Validate
    \/ Check
    \/ FormatChronosJobDict
    \/ CreateCompleteConfig({<<"a">>}, {<<"a">>})

Spec == Init /\ [][Next]_vars

\* schedules are checked
InitSchedule ==
    /\ config_dict \in ScheduleConfigDicts
    /\ branch_dict = <<>>
    /\ jobs = <<>>
    /\ Idle

NextSchedule == CheckSchedule

SpecSchedule == InitSchedule /\ [][NextSchedule]_vars

\* revisions of one valid job configuration are minted
InitTag ==
    /\ config_dict = [schedule |-> PyStr(ScheduleOf(<<"R">>, DatetimeUTC, PT1H))]
    /\ branch_dict \in BranchDicts
    /\ jobs = <<>>
    /\ Idle

NextTag == CreateCompleteConfig(OpaqueStrings, OpaqueStrings)

SpecTag == InitTag /\ [][NextTag]_vars

\* the scheduler's listing is queried
InitLookup ==
    /\ config_dict = <<>>
    /\ branch_dict = <<>>
    /\ jobs \in Listings
    /\ Idle

NextLookup == LookupChronosJobs

SpecLookup == InitLookup /\ [][NextLookup]_vars

----------------------------------------------------------------------------
(* Properties *)

\* C1: whenever format_chronos_job_dict is called on a configuration that validate()
\* fails, it raises InvalidChronosConfigError whose text holds every message that
\* validate() accumulated, it returns no payload, and no payload was logged.
C1_InvalidConfigRaises ==
    (call.op = "format_chronos_job_dict" /\ ~validate(config_dict).valid) =>
        /\ ret.raised = "InvalidChronosConfigError"
        /\ "value" \notin DOMAIN ret
        /\ \A i \in 1..Len(validate(config_dict).error_msgs) :
              Contains(ret.msg, validate(config_dict).error_msgs[i])
        /\ log = {}

\* format_chronos_job_dict has raised on a configuration with several invalid fields
C1_Witness ==
    /\ call.op = "format_chronos_job_dict"
    /\ ret.raised = "InvalidChronosConfigError"
    /\ Len(validate(config_dict).error_msgs) >= 3
    /\ HasKind(ret.msg, "retries is not a valid int")

\* the field names the validation recognizes
RecognizedParams == check_methods \cup supported_params_without_checks

\* C2: whenever validate() is called on a configuration that holds a key outside
\* the recognized set, it reports failure and one of its messages names that key
\* as unsupported.
C2_UnsupportedFieldFailsValidation ==
    call.op = "validate" =>
        \A key \in DOMAIN config_dict \ RecognizedParams :
            /\ ~ret.value.valid
            /\ \E i \in 1..Len(ret.value.error_msgs) :
                  ret.value.error_msgs[i] = UnsupportedMsg(key)

\* C3: the list validate() returns holds the message of every check among epsilon,
\* retries, cpus, mem, schedule and scheduleTimeZone that fails, and validate()
\* reports a pass exactly when the list is empty.
C3_ValidateNeverShortCircuits ==
    call.op = "validate" =>
        /\ \A param \in check_methods :
              ~check(config_dict, param).ok =>
                  \E i \in 1..Len(ret.value.error_msgs) :
                      ret.value.error_msgs[i] = check(config_dict, param).msg
        /\ ret.value.valid <=> (ret.value.error_msgs = <<>>)

\* validate() has reported both a bad epsilon and bad retries
C3_Witness ==
    /\ call.op = "validate"
    /\ ~check_epsilon(config_dict).ok
    /\ ~check_retries(config_dict).ok
    /\ \E i, j \in 1..Len(ret.value.error_msgs) :
          /\ i < j
          /\ HasKind(ret.value.error_msgs[i], "epsilon does not conform to ISO8601")
          /\ HasKind(ret.value.error_msgs[j], "retries is not a valid int")

\* C4: in the payload create_complete_config returns, disabled is true when the
\* desired state is "stop" and false when it is "start", whatever the
\* configuration's own disabled field says.
C4_DesiredStateForcesDisabled ==
    (call.op = "create_complete_config" /\ ret.raised = "none") =>
        /\ get_desired_state(branch_dict) = "stop" => ret.value.disabled = PyBool(TRUE)
        /\ get_desired_state(branch_dict) = "start" => ret.value.disabled = PyBool(FALSE)

\* a stopped job whose configuration says disabled: false came back disabled
C4_Witness ==
    /\ call.op = "create_complete_config"
    /\ ret.raised = "none"
    /\ "disabled" \in DOMAIN config_dict
    /\ config_dict.disabled = PyBool(FALSE)
    /\ get_desired_state(branch_dict) = "stop"
    /\ ret.value.disabled = PyBool(TRUE)

SamePair(r1, r2) == r1.code_sha = r2.code_sha /\ r1.config_hash = r2.config_hash
HasSpacer(s) == \E i \in 1..Len(s) : <<s[i]>> = SPACER

\* C5: two revisions have the same tag if and only if they have the same code
\* identifier and the same config hash.
C5_TagsEqualIffPairsEqual ==
    \A i, j \in DOMAIN minted :
        (minted[i].tag = minted[j].tag) <=> SamePair(minted[i], minted[j])

\* C5, amended: two revisions with the same code identifier and config hash have
\* the same tag; two revisions that differ have different tags when they differ in
\* one of the two components only, or when neither code identifier holds a SPACER.
C5_TagsEqualIffPairsEqualWithoutSpacer ==
    \A i, j \in DOMAIN minted :
        /\ SamePair(minted[i], minted[j]) => minted[i].tag = minted[j].tag
        /\ (/\ ~SamePair(minted[i], minted[j])
            /\ \/ minted[i].code_sha = minted[j].code_sha
               \/ minted[i].config_hash = minted[j].config_hash
               \/ ~HasSpacer(minted[i].code_sha) /\ ~HasSpacer(minted[j].code_sha))
           => minted[i].tag # minted[j].tag

\* two revisions that differ in both components, neither code identifier holding a
\* SPACER, were given different tags
C5_Witness ==
    /\ Len(minted) = 2
    /\ minted[1].code_sha # minted[2].code_sha
    /\ minted[1].config_hash # minted[2].config_hash
    /\ ~HasSpacer(minted[1].code_sha) /\ ~HasSpacer(minted[2].code_sha)
    /\ minted[1].tag # minted[2].tag

\* whether the query of the last call keeps this job
Kept(job) ==
    /\ Search(call.pattern, job.name)
    /\ ~job.disabled \/ call.include_disabled

\* the jobs of the listing that the query of the last call keeps, in listing order
KeptJobs == SelectSeq(jobs, Kept)

\* C6: whenever lookup_chronos_jobs is given a maximum and keeps more jobs than
\* that, it raises an error that names every kept job; so for every maximum, 0
\* included.
C6_ExceededMaximumFails ==
    (/\ call.op = "lookup_chronos_jobs"
     /\ CompileOk(call.pattern)
     /\ call.max_expected # PyNone
     /\ Len(KeptJobs) > call.max_expected.v) =>
        /\ ret.raised = "ValueError"
        /\ ret.msg.kind = "Found too many jobs"
        /\ ret.msg.ids = Join(<<",", " ">>, names_of(KeptJobs))

\* C7: whenever lookup_chronos_jobs returns, it returns the jobs of the listing
\* whose name matches the pattern and that are enabled or included by
\* include_disabled, all of them and no other, in listing order.
C7_ResultIsFilteredListing ==
    (call.op = "lookup_chronos_jobs" /\ ret.raised = "none") => ret.value = KeptJobs

\* a query has dropped a disabled job that matches and a job that does not match,
\* and has returned another
C7_Witness ==
    /\ call.op = "lookup_chronos_jobs"
    /\ ret.raised = "none"
    /\ ret.value # <<>>
    /\ \E i \in 1..Len(jobs) : Search(call.pattern, jobs[i].name) /\ jobs[i].disabled
    /\ \E i \in 1..Len(jobs) : ~Search(call.pattern, jobs[i].name)
    /\ \A i \in 1..Len(ret.value) : ~ret.value[i].disabled

\* the parts of the schedule of the configuration, when it has three
ScheduleParts == Split(config_dict.schedule.v, "/")
ThreePartSchedule ==
    /\ call.op = "check_schedule"
    /\ "schedule" \in DOMAIN config_dict
    /\ Len(ScheduleParts) = 3

\* "R" followed by digits and by nothing else
IsRThenDigits(s) ==
    /\ Len(s) >= 1
    /\ s[1] = "R"
    /\ \A i \in 2..Len(s) : s[i] \in Digits

\* C8: check_schedule passes a three-part schedule whose start time is empty and
\* whose repeat and interval are valid, and its message notes the missing start time.
C8_EmptyStartTimePasses ==
    (/\ ThreePartSchedule
     /\ ScheduleParts[2] = <<>>
     /\ IsRThenDigits(ScheduleParts[1])
     /\ ParseDurationOk(ScheduleParts[3])) =>
        /\ ret.value.ok
        /\ HasKind(ret.value.msg, "schedule does not contain a start time")

\* C9: check_schedule fails every schedule whose start time parses as a datetime
\* without time zone, and its message says that the start time must contain a time
\* zone.
C9_NaiveStartTimeFails ==
    (/\ ThreePartSchedule
     /\ ParseDatetime(ScheduleParts[2]).ok
     /\ ParseDatetime(ScheduleParts[2]).dt.tzinfo = "None") =>
        /\ ~ret.value.ok
        /\ HasKind(ret.value.msg, "start time must contain a time zone")

\* C10: check_schedule reports the repeat part of a three-part schedule exactly when
\* it is not "R" followed by digits and by nothing else.
C10_RepeatAcceptedIffRThenDigits ==
    ThreePartSchedule =>
        (HasKind(ret.value.msg, "repeat does not conform to ISO 8601")
            <=> ~IsRThenDigits(ScheduleParts[1]))

====
